---------------------------- MODULE Spec2Model ----------------------------
(***************************************************************************)
(* A model of the election forecasting code: the State record with its     *)
(* poll list and weighted aggregation (models.py, simulation_pipeline.py), *)
(* the Monte Carlo engine and the result analyzer (simulation_pipeline.py) *)
(* and simulate_election (simulation.py as the tests use it).              *)
(*                                                                         *)
(* Python floats are modelled as exact rationals <<numerator, denominator>>*)
(* in lowest terms with a positive denominator; 1.96 is 49/25.             *)
(***************************************************************************)
EXTENDS Integers, Sequences, FiniteSets, TLC

VARIABLES
    states,             \* name -> State record (dict of State objects)
    order,              \* the dict's iteration order: a sequence of names
    cls,                \* which State class the objects are instances of
    call,               \* the last call made on a State and how it ended
    snap,               \* name -> the State's fields right after its last
                        \* calculate_weighted_support, or NoSnap
    pc,                 \* position of the running function
    simulations,        \* argument of run / simulate_election
    poll_uncertainty,   \* argument of simulate_election
    turnout_scenario,   \* argument of simulate_election: name -> shift
    sim,                \* trials completed so far
    idx,                \* states handled so far in the current trial
    harris_evs,         \* electoral votes of side A in the current trial
    trump_evs,          \* electoral votes of side B in the current trial
    outcome,            \* the sample drawn last
    results,            \* list of per-trial results
    ri,                 \* results handled so far by summarize
    summary,            \* the counters of summarize
    wins,               \* the counters simulate_election returns
    safe_states_harris, \* lines of safe_states_harris.txt
    safe_states_trump,  \* lines of safe_states_trump.txt
    competitive_states, \* lines of competitive_states.txt
    polling_data,       \* rows of polling_data.csv
    li,                 \* entries handled so far by the current loading loop
    calcs,              \* name -> calls of calculate_weighted_support so far
    progress,           \* safe entries and poll rows handled so far
    fn,                 \* the sampling function being called
    seed,               \* argument of simulate_state_winners
    rng,                \* state of the random module's generator
    tape,               \* seed -> the generator's outputs drawn so far
    win_counts,         \* name -> wins of each side
    predictions,        \* name -> predicted party
    trace,              \* the samples of the current call, in order
    ncall,              \* calls of the sampling function started so far
    previous,           \* what the previous call drew and returned
    samples,            \* state index -> trial -> the sample drawn
    np_harris_evs,      \* simulation.py: side A's votes, one entry per trial
    np_trump_evs,       \* simulation.py: side B's votes, one entry per trial
    cycle,              \* ingestion cycles started so far
    saved,              \* the running cycle has saved the cleaned data
    exc,                \* the exception in flight, or "none"
    failed,             \* the step of this cycle that raised, or "none"
    reran,              \* run_simulation was called in this cycle
    history             \* how each cycle so far has ended

vars == <<states, order, cls, call, snap, pc, simulations, poll_uncertainty,
          turnout_scenario, sim, idx, harris_evs, trump_evs, outcome,
          results, ri, summary, wins, safe_states_harris, safe_states_trump,
          competitive_states, polling_data, li, calcs, progress, fn, seed,
          rng, tape, win_counts, predictions, trace, ncall, previous,
          samples, np_harris_evs, np_trump_evs, cycle, saved, exc,
          failed, reran, history>>

stateVars == <<states, order, cls, call, snap>>
runVars == <<pc, simulations, poll_uncertainty, turnout_scenario, sim, idx,
             harris_evs, trump_evs, outcome, results, ri, summary, wins>>
simVars == <<simulations, poll_uncertainty, turnout_scenario, sim, idx,
             harris_evs, trump_evs, outcome, results, ri, summary, wins>>
loadInputs == <<safe_states_harris, safe_states_trump, competitive_states,
                polling_data>>
loadVars == <<safe_states_harris, safe_states_trump, competitive_states,
              polling_data, li, calcs, progress>>
seedVars == <<fn, seed, rng, tape, win_counts, predictions, trace, ncall,
              previous>>
tallyVars == <<samples, np_harris_evs, np_trump_evs>>
schedVars == <<cycle, saved, exc, failed, reran, history>>

----------------------------------------------------------------------------
(* Bounds of the model.                                                    *)

MaxPolls == 2
MaxSimulations == 2
MaxResults == 3

\* Ingestion cycles whose outcome is remembered.
MaxCycles == 3

----------------------------------------------------------------------------
(* Rational arithmetic for Python's float operations.                      *)

Abs(x) == IF x < 0 THEN -x ELSE x

RECURSIVE GCD(_, _)
GCD(a, b) == IF b = 0 THEN a ELSE GCD(b, a % b)

Norm(n, d) ==
    LET g == GCD(Abs(n), Abs(d))
        sgn == IF d < 0 THEN -1 ELSE 1
    IN  <<sgn * (n \div g), sgn * (d \div g)>>

R(n) == <<n, 1>>

RAdd(a, b) == Norm(a[1] * b[2] + b[1] * a[2], a[2] * b[2])
RSub(a, b) == Norm(a[1] * b[2] - b[1] * a[2], a[2] * b[2])
RMul(a, b) == Norm(a[1] * b[1], a[2] * b[2])
RLt(a, b) == a[1] * b[2] < b[1] * a[2]

\* Python's a / b on floats raises ZeroDivisionError when b is zero: the
\* quotient is then this marker, which is no rational.
ZeroDivisionError == <<0, 0>>

RDiv(a, b) == IF b[1] = 0 THEN ZeroDivisionError
              ELSE Norm(a[1] * b[2], a[2] * b[1])

\* Python's max(a, b): the first argument unless the second is greater.
PyMax(a, b) == IF RLt(a, b) THEN b ELSE a

Z196 == <<49, 25>>

----------------------------------------------------------------------------
(* The State class.                                                        *)

NewState(name, electoral_votes) ==
    [name |-> name, electoral_votes |-> electoral_votes, polls |-> <<>>,
     harris_support |-> R(50), trump_support |-> R(50), std_dev |-> R(4)]

RECURSIVE SumOver(_, _, _)
\* sum(f(poll) for poll in polls), left to right
SumOver(polls, i, key) ==
    IF i > Len(polls) THEN 0
    ELSE (IF key = "weight" THEN polls[i].weight
          ELSE polls[i][key] * polls[i].weight) + SumOver(polls, i + 1, key)

PollRecord(harris, trump, weight, moe) ==
    [harris |-> harris, trump |-> trump, weight |-> weight, moe |-> moe]

\* A weight check that lets 0 through.
ValidWeightFromZero(weight) == ~(weight < 0 \/ weight > 10)

\* The negation of add_poll's guard.
ValidWeight(weight) == ~(weight < 1 \/ weight > 10)

\* State.add_poll: the new State and what was raised.
add_poll(s, harris, trump, weight, moe) ==
    IF ~ValidWeight(weight)
    THEN [state |-> s, raised |-> "ValueError"]
    ELSE [state |-> [s EXCEPT !.polls =
                        Append(@, PollRecord(harris, trump, weight, moe))],
          raised |-> "none"]

total_weight(polls) == SumOver(polls, 1, "weight")

\* The mean of the polls' values, every poll counting once.
UnweightedAverage(polls, key) ==
    LET RECURSIVE Plain(_)
        Plain(i) == IF i > Len(polls) THEN 0 ELSE polls[i][key] + Plain(i + 1)
    IN  RDiv(R(Plain(1)), R(Len(polls)))

\* sum(poll[key] * poll["weight"] for poll in polls) / total_weight
WeightedAverage(polls, key) ==
    RDiv(R(SumOver(polls, 1, key)), R(total_weight(polls)))

\* weighted_moe / 1.96 with no floor.
UnflooredStdDev(weighted_moe) == RDiv(weighted_moe, Z196)

\* models.py: std_dev = weighted_moe / 1.96; if std_dev < 1.0: std_dev = 1.0
models_std_dev(weighted_moe) ==
    LET sd == RDiv(weighted_moe, Z196)
    IN  IF RLt(sd, R(1)) THEN R(1) ELSE sd

\* simulation_pipeline.py: std_dev = max(weighted_moe / 1.96, 1.0)
pipeline_std_dev(weighted_moe) == PyMax(RDiv(weighted_moe, Z196), R(1))

\* The empty-poll branch of calculate_weighted_support.
NeutralPrior(s) ==
    [s EXCEPT !.harris_support = R(50), !.trump_support = R(50),
              !.std_dev = R(2)]

\* The part of calculate_weighted_support after the empty-poll branch: the
\* first division that fails raises before any field is assigned.
Aggregate(s, sd) ==
    LET h == WeightedAverage(s.polls, "harris")
        t == WeightedAverage(s.polls, "trump")
    IN  IF h = ZeroDivisionError
        THEN [state |-> s, raised |-> "ZeroDivisionError"]
        ELSE [state |-> [s EXCEPT !.harris_support = h, !.trump_support = t,
                                  !.std_dev = sd], raised |-> "none"]

\* A recomputation that skips the empty-poll branch.
CalculateUnguarded(s) ==
    Aggregate(s, IF total_weight(s.polls) = 0 THEN R(2)
                 ELSE models_std_dev(WeightedAverage(s.polls, "moe")))

\* A recomputation that averages the new support with the stored one.
CalculateBlended(s) ==
    IF total_weight(s.polls) = 0
    THEN [state |-> NeutralPrior(s), raised |-> "none"]
    ELSE [state |-> [s EXCEPT
                 !.harris_support = RDiv(RAdd(@, WeightedAverage(s.polls, "harris")), R(2)),
                 !.trump_support = RDiv(RAdd(@, WeightedAverage(s.polls, "trump")), R(2)),
                 !.std_dev = models_std_dev(WeightedAverage(s.polls, "moe"))],
          raised |-> "none"]

\* models.State.calculate_weighted_support
calculate_weighted_support(s) ==
    IF total_weight(s.polls) = 0
    THEN [state |-> NeutralPrior(s), raised |-> "none"]
    ELSE Aggregate(s, models_std_dev(WeightedAverage(s.polls, "moe")))

\* simulation_pipeline.State.calculate_weighted_support
pipeline_calculate_weighted_support(s) ==
    IF total_weight(s.polls) = 0
    THEN [state |-> NeutralPrior(s), raised |-> "none"]
    ELSE Aggregate(s, pipeline_std_dev(WeightedAverage(s.polls, "moe")))

\* simulation.State.calculate_weighted_support
simulation_calculate_weighted_support(s) ==
    IF total_weight(s.polls) = 0
    THEN [state |-> NeutralPrior(s), raised |-> "none"]
    ELSE Aggregate(s, models_std_dev(WeightedAverage(s.polls, "moe")))

\* election_simulation.State.calculate_weighted_support
election_simulation_calculate_weighted_support(s) ==
    IF total_weight(s.polls) = 0
    THEN [state |-> NeutralPrior(s), raised |-> "none"]
    ELSE Aggregate(s, models_std_dev(WeightedAverage(s.polls, "moe")))

\* election.State.calculate_weighted_support: self.std_dev = 4.0
election_calculate_weighted_support(s) ==
    IF total_weight(s.polls) = 0
    THEN [state |-> NeutralPrior(s), raised |-> "none"]
    ELSE Aggregate(s, R(4))

\* A calculate_weighted_support that assigns nothing.
CalculateNothing(c, s) == [state |-> s, raised |-> "none"]

\* state.calculate_weighted_support() on an object of class c
CalculateOf(c, s) ==
    CASE c = "models" -> calculate_weighted_support(s)
      [] c = "simulation" -> simulation_calculate_weighted_support(s)
      [] c = "election_simulation" ->
            election_simulation_calculate_weighted_support(s)
      [] c = "simulation_pipeline" -> pipeline_calculate_weighted_support(s)
      [] c = "election" -> election_calculate_weighted_support(s)

\* Safe-state assignments that leave the deviation as it was.
SafeHarrisSupportOnly(s) ==
    [s EXCEPT !.harris_support = R(60), !.trump_support = R(35)]

\* The safe-state loops' assignments.
SafeHarrisOverride(s) ==
    [s EXCEPT !.harris_support = R(60), !.trump_support = R(35),
              !.std_dev = R(2)]

SafeTrumpOverride(s) ==
    [s EXCEPT !.harris_support = R(35), !.trump_support = R(60),
              !.std_dev = R(2)]

----------------------------------------------------------------------------
(* Inputs.                                                                 *)

Classes == {"models", "simulation_pipeline"}
SupportValues == {<<55, 45>>, <<50, 50>>}
Weights == {0, 1, 2, 11}
Moes == {1, 3, 4}

NoSnap == [valid |-> FALSE, polls |-> <<>>, harris_support |-> R(0),
           trump_support |-> R(0), std_dev |-> R(0)]
Snapshot(s) == [valid |-> TRUE, polls |-> s.polls,
                harris_support |-> s.harris_support,
                trump_support |-> s.trump_support, std_dev |-> s.std_dev]

NoSummary == [Harris |-> 0, Trump |-> 0, Ties |-> 0]
NoWins == [harris_wins |-> 0, trump_wins |-> 0, ties |-> 0]

NoProgress == [safe |-> 0, polls |-> 0]
NoCall == [seed |-> 0, entry |-> <<>>, trace |-> <<>>, predictions |-> <<>>,
           results |-> <<>>]

\* The loader not in use.
IdleLoad ==
    /\ safe_states_harris = <<>>
    /\ safe_states_trump = <<>>
    /\ competitive_states = <<>>
    /\ polling_data = <<>>
    /\ li = 0
    /\ calcs = <<>>
    /\ progress = NoProgress

\* The generator and the sampling functions not in use.
IdleSeeded ==
    /\ fn = "none"
    /\ seed = 0
    /\ rng = <<>>
    /\ tape = <<>>
    /\ win_counts = <<>>
    /\ predictions = <<>>
    /\ trace = <<>>
    /\ ncall = 0
    /\ previous = NoCall

\* simulation.py's tally not in use.
IdleTally ==
    /\ samples = <<>>
    /\ np_harris_evs = <<>>
    /\ np_trump_evs = <<>>

\* The ingestion scheduler not in use.
IdleSchedule ==
    /\ cycle = 0
    /\ saved = FALSE
    /\ exc = "none"
    /\ failed = "none"
    /\ reran = FALSE
    /\ history = <<>>

\* The locals of a function not yet called.
IdleLocals ==
    /\ sim = 0
    /\ idx = 0
    /\ harris_evs = 0
    /\ trump_evs = 0
    /\ outcome = R(0)
    /\ ri = 0
    /\ summary = NoSummary
    /\ wins = NoWins

IdleRun ==
    /\ pc = "idle"
    /\ simulations = 0
    /\ poll_uncertainty = R(1)
    /\ turnout_scenario = <<>>
    /\ results = <<>>
    /\ IdleLocals
    /\ IdleLoad
    /\ IdleSeeded
    /\ IdleTally
    /\ IdleSchedule

----------------------------------------------------------------------------
(* The State objects under any sequence of calls.                          *)

Init ==
    /\ states = [n \in {"Test"} |-> NewState(n, 10)]
    /\ order = <<"Test">>
    /\ cls \in Classes
    /\ call = [op |-> "State", name |-> "Test", args |-> <<>>,
               raised |-> "none", again |-> FALSE]
    /\ snap = [n \in {"Test"} |-> NoSnap]
    /\ IdleRun

\* The call about to be made on n recomputes an aggregate whose polls have
\* not changed since it was computed.
Recomputation(n) == snap[n].valid /\ snap[n].polls = states[n].polls

AddPoll(n, harris, trump, weight, moe) ==
    /\ pc = "idle"
    /\ Len(states[n].polls) < MaxPolls
    /\ LET r == add_poll(states[n], harris, trump, weight, moe)
       IN  /\ states' = [states EXCEPT ![n] = r.state]
           /\ call' = [op |-> "add_poll", name |-> n,
                       args |-> <<harris, trump, weight, moe>>,
                       raised |-> r.raised, again |-> FALSE]
    /\ UNCHANGED <<tallyVars, schedVars, order, cls, snap, runVars, loadVars, seedVars>>

CalculateWeightedSupport(n) ==
    /\ pc = "idle"
    /\ LET r == CalculateOf(cls, states[n])
       IN  /\ states' = [states EXCEPT ![n] = r.state]
           /\ call' = [op |-> "calculate_weighted_support", name |-> n,
                       args |-> <<>>, raised |-> r.raised,
                       again |-> Recomputation(n)]
           /\ snap' = [snap EXCEPT ![n] = IF r.raised = "none"
                                            THEN Snapshot(r.state) ELSE @]
    /\ UNCHANGED <<tallyVars, schedVars, order, cls, runVars, loadVars, seedVars>>

SafeHarris(n) ==
    /\ pc = "idle"
    /\ states' = [states EXCEPT ![n] = SafeHarrisOverride(@)]
    /\ call' = [op |-> "safe_harris", name |-> n, args |-> <<>>,
                raised |-> "none", again |-> FALSE]
    /\ UNCHANGED <<tallyVars, schedVars, order, cls, snap, runVars, loadVars, seedVars>>

SafeTrump(n) ==
    /\ pc = "idle"
    /\ states' = [states EXCEPT ![n] = SafeTrumpOverride(@)]
    /\ call' = [op |-> "safe_trump", name |-> n, args |-> <<>>,
                raised |-> "none", again |-> FALSE]
    /\ UNCHANGED <<tallyVars, schedVars, order, cls, snap, runVars, loadVars, seedVars>>

Next ==
    \/ \E n \in DOMAIN states, sv \in SupportValues, w \in Weights, m \in Moes :
          AddPoll(n, sv[1], sv[2], w, m)
    \/ \E n \in DOMAIN states : CalculateWeightedSupport(n)
    \/ \E n \in DOMAIN states : SafeHarris(n)
    \/ \E n \in DOMAIN states : SafeTrump(n)

Spec == Init /\ [][Next]_vars

----------------------------------------------------------------------------
(* MonteCarloSimulationEngine.run followed by BasicResultAnalyzer.summarize.*)

\* random.gauss(mu, sigma) is mu + z * sigma for a standard normal draw z.
gauss(mu, sigma, z) == RAdd(mu, RMul(z, sigma))

ZValues == {-13, 0, 13}

\* A test that also gives side A a sample of exactly 0.
OutcomeNotNegative(o) == ~RLt(o, R(0))

\* if outcome > 0
OutcomePositive(o) == RLt(R(0), o)

\* Totals that continue from the previous trial's.
CarriedEvs == [Harris |-> harris_evs, Trump |-> trump_evs]

\* harris_evs = 0; trump_evs = 0
FreshEvs == [Harris |-> 0, Trump |-> 0]

\* A test that needs more than 270 votes.
ReachesAbove(votes) == votes > 270

\* result[...] >= 270
Reaches270(votes) == votes >= 270

\* A classification that tests Trump's votes first.
ClassifyTrumpFirst(result) ==
    IF Reaches270(result.Trump) THEN "Trump"
    ELSE IF Reaches270(result.Harris) THEN "Harris"
    ELSE "Ties"

\* The counter BasicResultAnalyzer.summarize increments for one result.
Classify(result) ==
    IF Reaches270(result.Harris) THEN "Harris"
    ELSE IF Reaches270(result.Trump) THEN "Trump"
    ELSE "Ties"

\* The states a load leaves behind: untouched, safe for Harris, safe for
\* Trump.
Profiles == {NewState("", 0), SafeHarrisOverride(NewState("", 0)),
             SafeTrumpOverride(NewState("", 0))}

WithProfile(name, electoral_votes, p) ==
    [p EXCEPT !.name = name, !.electoral_votes = electoral_votes]

EngineVotes == [Alpha |-> 269, Beta |-> 1, Gamma |-> 268]
EngineOrder == <<"Alpha", "Beta", "Gamma">>

\* A roster of 540 electoral votes.
WideVotes == [Alpha |-> 270, Beta |-> 1, Gamma |-> 269]

EngineRosters == {EngineVotes, WideVotes}

InitEngine ==
    /\ \E votes \in EngineRosters : \E pf \in [DOMAIN votes -> Profiles] :
          states = [n \in DOMAIN votes |-> WithProfile(n, votes[n], pf[n])]
    /\ order = EngineOrder
    /\ cls = "simulation_pipeline"
    /\ call = [op |-> "run", name |-> "", args |-> <<>>, raised |-> "none",
               again |-> FALSE]
    /\ snap = [n \in DOMAIN EngineVotes |-> NoSnap]
    /\ pc = "run"
    /\ simulations \in 0..MaxSimulations
    /\ poll_uncertainty = R(1)
    /\ turnout_scenario = <<>>
    /\ results = <<>>
    /\ IdleLocals
    /\ IdleLoad
    /\ IdleSeeded
    /\ IdleTally
    /\ IdleSchedule

\* for _ in range(simulations): harris_evs = 0; trump_evs = 0
RunTrial ==
    /\ pc = "run"
    /\ sim < simulations
    /\ harris_evs' = FreshEvs.Harris
    /\ trump_evs' = FreshEvs.Trump
    /\ idx' = 0
    /\ pc' = "trial"
    /\ UNCHANGED <<tallyVars, schedVars, stateVars, loadVars, seedVars, simulations, poll_uncertainty, turnout_scenario,
                   sim, outcome, results, ri, summary, wins>>

\* A body that stores the deviation it sampled with back into the state.
RunStateScaling(z) ==
    /\ pc = "trial"
    /\ idx < Len(order)
    /\ LET state == states[order[idx + 1]]
           margin == RSub(state.harris_support, state.trump_support)
           sigma == RMul(state.std_dev, R(2))
           o == gauss(margin, sigma, R(z))
       IN  /\ outcome' = o
           /\ states' = [states EXCEPT ![order[idx + 1]].std_dev = sigma]
           /\ IF OutcomePositive(o)
              THEN /\ harris_evs' = harris_evs + state.electoral_votes
                   /\ trump_evs' = trump_evs
              ELSE /\ trump_evs' = trump_evs + state.electoral_votes
                   /\ harris_evs' = harris_evs
    /\ idx' = idx + 1
    /\ UNCHANGED <<tallyVars, schedVars, order, cls, call, snap, loadVars, seedVars, pc, simulations,
                   poll_uncertainty, turnout_scenario, sim, results, ri,
                   summary, wins>>

\* for state in states.values(): the body, with the draw z
RunState(z) ==
    /\ pc = "trial"
    /\ idx < Len(order)
    /\ LET state == states[order[idx + 1]]
           margin == RSub(state.harris_support, state.trump_support)
           o == gauss(margin, state.std_dev, R(z))
       IN  /\ outcome' = o
           /\ IF OutcomePositive(o)
              THEN /\ harris_evs' = harris_evs + state.electoral_votes
                   /\ trump_evs' = trump_evs
              ELSE /\ trump_evs' = trump_evs + state.electoral_votes
                   /\ harris_evs' = harris_evs
    /\ idx' = idx + 1
    /\ UNCHANGED <<tallyVars, schedVars, stateVars, loadVars, seedVars, pc, simulations, poll_uncertainty,
                   turnout_scenario, sim, results, ri, summary, wins>>

\* results.append({"Harris": harris_evs, "Trump": trump_evs})
RunAppend ==
    /\ pc = "trial"
    /\ idx = Len(order)
    /\ results' = Append(results, [Harris |-> harris_evs, Trump |-> trump_evs])
    /\ sim' = sim + 1
    /\ pc' = "run"
    /\ UNCHANGED <<tallyVars, schedVars, stateVars, loadVars, seedVars, simulations, poll_uncertainty, turnout_scenario,
                   idx, harris_evs, trump_evs, outcome, ri, summary, wins>>

\* return results, handed to summarize: summary = {...: 0}
RunReturn ==
    /\ pc = "run"
    /\ sim = simulations
    /\ pc' = "summarize"
    /\ ri' = 0
    /\ summary' = NoSummary
    /\ UNCHANGED <<tallyVars, schedVars, stateVars, loadVars, seedVars, simulations, poll_uncertainty, turnout_scenario,
                   sim, idx, harris_evs, trump_evs, outcome, results, wins>>

\* for result in results: the body
SummarizeResult ==
    /\ pc = "summarize"
    /\ ri < Len(results)
    /\ LET k == Classify(results[ri + 1])
       IN  summary' = [summary EXCEPT ![k] = @ + 1]
    /\ ri' = ri + 1
    /\ UNCHANGED <<tallyVars, schedVars, stateVars, loadVars, seedVars, pc, simulations, poll_uncertainty,
                   turnout_scenario, sim, idx, harris_evs, trump_evs, outcome,
                   results, wins>>

\* return summary
SummarizeReturn ==
    /\ pc = "summarize"
    /\ ri = Len(results)
    /\ pc' = "done"
    /\ UNCHANGED <<tallyVars, schedVars, stateVars, loadVars, seedVars, simulations, poll_uncertainty, turnout_scenario,
                   sim, idx, harris_evs, trump_evs, outcome, results, ri,
                   summary, wins>>

NextEngine ==
    \/ RunTrial
    \/ \E z \in ZValues : RunState(z)
    \/ RunAppend
    \/ RunReturn
    \/ SummarizeResult
    \/ SummarizeReturn

SpecEngine == InitEngine /\ [][NextEngine]_vars

----------------------------------------------------------------------------
(* BasicResultAnalyzer.summarize on any list of results.                   *)

Result(a, b) == [Harris |-> a, Trump |-> b]

ResultValues == {Result(300, 238), Result(200, 338), Result(269, 269),
                 Result(270, 268), Result(270, 270)}

InitAnalyzer ==
    /\ states = <<>>
    /\ order = <<>>
    /\ cls = "simulation_pipeline"
    /\ call = [op |-> "summarize", name |-> "", args |-> <<>>,
               raised |-> "none", again |-> FALSE]
    /\ snap = <<>>
    /\ pc = "summarize"
    /\ simulations = 0
    /\ poll_uncertainty = R(1)
    /\ turnout_scenario = <<>>
    /\ results \in UNION {[1..k -> ResultValues] : k \in 0..MaxResults}
    /\ IdleLocals
    /\ IdleLoad
    /\ IdleSeeded
    /\ IdleTally
    /\ IdleSchedule

NextAnalyzer ==
    \/ SummarizeResult
    \/ SummarizeReturn

SpecAnalyzer == InitAnalyzer /\ [][NextAnalyzer]_vars

----------------------------------------------------------------------------
(* simulate_election(states, simulations, poll_uncertainty,                *)
(* turnout_scenario), as the tests call it and the design describes it.    *)

\* A deviation that ignores the multiplier.
StoredStdDev(state) == state.std_dev

\* standard deviation uncertainty * uncertaintyMultiplier
EffectiveStdDev(state) == RMul(state.std_dev, poll_uncertainty)

\* A margin that leaves the turnout shift out.
UnshiftedMargin(state) == RSub(state.harris_support, state.trump_support)

\* (supportA - supportB) + turnoutShift.get(name, 0.0)
EffectiveMargin(state) ==
    RAdd(RSub(state.harris_support, state.trump_support),
         IF state.name \in DOMAIN turnout_scenario
         THEN turnout_scenario[state.name] ELSE R(0))

TestVotes == {269, 270, 300}

\* The States the tests build by assigning the fields.
TestStates(electoral_votes) ==
    {[NewState("Test", electoral_votes) EXCEPT
         !.harris_support = R(55), !.trump_support = R(45), !.std_dev = R(5)],
     [NewState("Test", electoral_votes) EXCEPT
         !.harris_support = R(45), !.trump_support = R(55), !.std_dev = R(0)]}

InitSimulate ==
    /\ \E ev \in TestVotes : \E s \in TestStates(ev) :
          states = [n \in {"Test"} |-> s]
    /\ order = <<"Test">>
    /\ cls = "models"
    /\ call = [op |-> "simulate_election", name |-> "", args |-> <<>>,
               raised |-> "none", again |-> FALSE]
    /\ snap = [n \in {"Test"} |-> NoSnap]
    /\ pc = "sim_run"
    /\ simulations \in 1..MaxSimulations
    /\ poll_uncertainty \in {R(0), R(1)}
    /\ turnout_scenario \in {<<>>, [n \in {"Test"} |-> R(15)]}
    /\ results = <<>>
    /\ IdleLocals
    /\ IdleLoad
    /\ IdleSeeded
    /\ IdleTally
    /\ IdleSchedule

SimTrial ==
    /\ pc = "sim_run"
    /\ sim < simulations
    /\ harris_evs' = 0
    /\ trump_evs' = 0
    /\ idx' = 0
    /\ pc' = "sim_trial"
    /\ UNCHANGED <<tallyVars, schedVars, stateVars, loadVars, seedVars, simulations, poll_uncertainty, turnout_scenario,
                   sim, outcome, results, ri, summary, wins>>

SimState(z) ==
    /\ pc = "sim_trial"
    /\ idx < Len(order)
    /\ LET state == states[order[idx + 1]]
           o == gauss(EffectiveMargin(state), EffectiveStdDev(state), R(z))
       IN  /\ outcome' = o
           /\ IF OutcomePositive(o)
              THEN /\ harris_evs' = harris_evs + state.electoral_votes
                   /\ trump_evs' = trump_evs
              ELSE /\ trump_evs' = trump_evs + state.electoral_votes
                   /\ harris_evs' = harris_evs
    /\ idx' = idx + 1
    /\ UNCHANGED <<tallyVars, schedVars, stateVars, loadVars, seedVars, pc, simulations, poll_uncertainty,
                   turnout_scenario, sim, results, ri, summary, wins>>

SimTally ==
    /\ pc = "sim_trial"
    /\ idx = Len(order)
    /\ wins' = IF Reaches270(harris_evs)
               THEN [wins EXCEPT !.harris_wins = @ + 1]
               ELSE IF Reaches270(trump_evs)
               THEN [wins EXCEPT !.trump_wins = @ + 1]
               ELSE [wins EXCEPT !.ties = @ + 1]
    /\ sim' = sim + 1
    /\ pc' = "sim_run"
    /\ UNCHANGED <<tallyVars, schedVars, stateVars, loadVars, seedVars, simulations, poll_uncertainty, turnout_scenario,
                   idx, harris_evs, trump_evs, outcome, results, ri, summary>>

SimReturn ==
    /\ pc = "sim_run"
    /\ sim = simulations
    /\ pc' = "sim_done"
    /\ UNCHANGED <<tallyVars, schedVars, stateVars, loadVars, seedVars, simulations, poll_uncertainty, turnout_scenario,
                   sim, idx, harris_evs, trump_evs, outcome, results, ri,
                   summary, wins>>

NextSimulate ==
    \/ SimTrial
    \/ \E z \in ZValues : SimState(z)
    \/ SimTally
    \/ SimReturn

SpecSimulate == InitSimulate /\ [][NextSimulate]_vars

----------------------------------------------------------------------------
(* A run of either simulation function, from start to return.             *)

InitRuns == InitEngine \/ InitSimulate

NextRuns == NextEngine \/ NextSimulate

SpecRuns == InitRuns /\ [][NextRuns]_vars

----------------------------------------------------------------------------
(* Loading: CSVFilePollDataSource.get_states, build_states and the main    *)
(* functions of election_simulation.py and simulation.py, which run the    *)
(* same four loops over the same files.                                    *)

\* states_info.csv
LoadRoster == [Alpha |-> 10, Beta |-> 20]
LoadOrder == <<"Alpha", "Beta">>

\* The classes whose objects the loaders build.
LoadClasses == {"simulation_pipeline", "election_simulation"}

SafeHarrisLists == {<<>>, <<"Alpha">>, <<"Narnia", "Alpha", "Beta">>}
SafeTrumpLists == {<<>>, <<"Beta">>, <<"Alpha", "Narnia">>}
CompetitiveLists == {<<>>, <<"Alpha">>, <<"Beta", "Narnia", "Alpha">>,
                     <<"Alpha", "Alpha">>}

PollRow(state_name, harris, trump, weight, moe) ==
    [state_name |-> state_name, harris_support |-> harris,
     trump_support |-> trump, weight |-> weight, moe |-> moe]

PollRows == {PollRow("Alpha", 55, 45, 2, 3), PollRow("Alpha", 50, 50, 1, 4),
             PollRow("Beta", 55, 45, 2, 3), PollRow("Narnia", 55, 45, 2, 3),
             PollRow("Alpha", 50, 50, 11, 4), PollRow("Narnia", 50, 50, 11, 4)}

\* A membership test that lets every name through.
AlwaysKnown(state_name) == TRUE

\* if state_name in states
KnownState(state_name) == state_name \in DOMAIN states

\* An order of the loops that aggregates before the polls are appended.
AggregateFirst(p) ==
    CASE p = "safe_harris" -> "competitive"
      [] p = "competitive" -> "safe_trump"
      [] p = "safe_trump" -> "polls"
      [] p = "polls" -> "returned"

\* The order of the four loops.
NextLoop(p) ==
    CASE p = "safe_harris" -> "safe_trump"
      [] p = "safe_trump" -> "polls"
      [] p = "polls" -> "competitive"
      [] p = "competitive" -> "returned"

LoadLoops == {"safe_harris", "safe_trump", "polls", "competitive"}

\* The list the running loop iterates over.
CurrentList ==
    CASE pc = "safe_harris" -> safe_states_harris
      [] pc = "safe_trump" -> safe_states_trump
      [] pc = "polls" -> polling_data
      [] pc = "competitive" -> competitive_states

InitLoad ==
    /\ states = [n \in DOMAIN LoadRoster |-> NewState(n, LoadRoster[n])]
    /\ order = LoadOrder
    /\ cls \in LoadClasses
    /\ call = [op |-> "get_states", name |-> "", args |-> <<>>,
               raised |-> "none", again |-> FALSE]
    /\ snap = [n \in DOMAIN LoadRoster |-> NoSnap]
    /\ pc = "safe_harris"
    /\ simulations = 0
    /\ poll_uncertainty = R(1)
    /\ turnout_scenario = <<>>
    /\ results = <<>>
    /\ IdleLocals
    /\ safe_states_harris \in SafeHarrisLists
    /\ safe_states_trump \in SafeTrumpLists
    /\ competitive_states \in CompetitiveLists
    /\ polling_data \in UNION {[1..k -> PollRows] : k \in 0..MaxPolls}
    /\ li = 0
    /\ calcs = [n \in DOMAIN LoadRoster |-> 0]
    /\ progress = NoProgress
    /\ IdleSeeded
    /\ IdleTally
    /\ IdleSchedule

LoadCall(op, state_name, raised) ==
    [op |-> op, name |-> state_name, args |-> <<>>, raised |-> raised,
     again |-> FALSE]

\* The membership test fails: the body of the loop is not executed.
LoadSkip(state_name) ==
    /\ call' = LoadCall("skip", state_name, "none")
    /\ UNCHANGED <<tallyVars, schedVars, states, snap, calcs, pc>>

\* states[state_name] for a name that is not a key.
LoadKeyError(state_name) ==
    /\ call' = LoadCall("getitem", state_name, "KeyError")
    /\ pc' = "raised"
    /\ UNCHANGED <<tallyVars, schedVars, states, snap, calcs>>

\* for state_name in safe_states_harris: the body
LoadSafeHarris ==
    /\ pc = "safe_harris"
    /\ li < Len(safe_states_harris)
    /\ LET state_name == safe_states_harris[li + 1]
       IN  IF ~KnownState(state_name) THEN LoadSkip(state_name)
           ELSE IF state_name \notin DOMAIN states
           THEN LoadKeyError(state_name)
           ELSE /\ states' = [states EXCEPT
                                 ![state_name] = SafeHarrisOverride(@)]
                /\ call' = LoadCall("safe_harris", state_name, "none")
                /\ UNCHANGED <<tallyVars, schedVars, snap, calcs, pc>>
    /\ li' = li + 1
    /\ progress' = [progress EXCEPT !.safe = @ + 1]
    /\ UNCHANGED <<tallyVars, schedVars, order, cls, simVars, loadInputs, seedVars>>

\* for state_name in safe_states_trump: the body
LoadSafeTrump ==
    /\ pc = "safe_trump"
    /\ li < Len(safe_states_trump)
    /\ LET state_name == safe_states_trump[li + 1]
       IN  IF ~KnownState(state_name) THEN LoadSkip(state_name)
           ELSE IF state_name \notin DOMAIN states
           THEN LoadKeyError(state_name)
           ELSE /\ states' = [states EXCEPT
                                 ![state_name] = SafeTrumpOverride(@)]
                /\ call' = LoadCall("safe_trump", state_name, "none")
                /\ UNCHANGED <<tallyVars, schedVars, snap, calcs, pc>>
    /\ li' = li + 1
    /\ progress' = [progress EXCEPT !.safe = @ + 1]
    /\ UNCHANGED <<tallyVars, schedVars, order, cls, simVars, loadInputs, seedVars>>

\* for poll in polling_data: the body; a ValueError of add_poll ends the load
LoadPoll ==
    /\ pc = "polls"
    /\ li < Len(polling_data)
    /\ LET poll == polling_data[li + 1]
           state_name == poll.state_name
       IN  IF ~KnownState(state_name) THEN LoadSkip(state_name)
           ELSE IF state_name \notin DOMAIN states
           THEN LoadKeyError(state_name)
           ELSE LET r == add_poll(states[state_name], poll.harris_support,
                                  poll.trump_support, poll.weight, poll.moe)
                IN  /\ states' = [states EXCEPT ![state_name] = r.state]
                    /\ call' = LoadCall("add_poll", state_name, r.raised)
                    /\ pc' = IF r.raised = "none" THEN pc ELSE "raised"
                    /\ UNCHANGED <<tallyVars, schedVars, snap, calcs>>
    /\ li' = li + 1
    /\ progress' = [progress EXCEPT !.polls = @ + 1]
    /\ UNCHANGED <<tallyVars, schedVars, order, cls, simVars, loadInputs, seedVars>>

\* for state_name in competitive_states: the body
LoadCompetitive ==
    /\ pc = "competitive"
    /\ li < Len(competitive_states)
    /\ LET state_name == competitive_states[li + 1]
       IN  IF ~KnownState(state_name) THEN LoadSkip(state_name)
           ELSE IF state_name \notin DOMAIN states
           THEN LoadKeyError(state_name)
           ELSE LET r == CalculateOf(cls, states[state_name])
                IN  /\ states' = [states EXCEPT ![state_name] = r.state]
                    /\ call' = LoadCall("calculate_weighted_support",
                                        state_name, r.raised)
                    /\ snap' = [snap EXCEPT ![state_name] =
                                   IF r.raised = "none"
                                   THEN Snapshot(r.state) ELSE @]
                    /\ calcs' = [calcs EXCEPT ![state_name] = @ + 1]
                    /\ pc' = IF r.raised = "none" THEN pc ELSE "raised"
    /\ li' = li + 1
    /\ UNCHANGED <<tallyVars, schedVars, order, cls, simVars, loadInputs, progress, seedVars>>

\* A loop has run through its list: the next loop starts, or get_states
\* returns.
LoadNextLoop ==
    /\ pc \in LoadLoops
    /\ li = Len(CurrentList)
    /\ pc' = NextLoop(pc)
    /\ li' = 0
    /\ UNCHANGED <<tallyVars, schedVars, stateVars, simVars, loadInputs, calcs, progress, seedVars>>

NextLoad ==
    \/ LoadSafeHarris
    \/ LoadSafeTrump
    \/ LoadPoll
    \/ LoadCompetitive
    \/ LoadNextLoop

SpecLoad == InitLoad /\ [][NextLoad]_vars

----------------------------------------------------------------------------
(* The State class of each of the five files under add_poll and            *)
(* calculate_weighted_support.                                             *)

StateClasses == {"models", "simulation", "election_simulation",
                 "simulation_pipeline", "election"}

\* The polls of the aggregation examples, and one with a small margin.
VariantPolls == {<<55, 45, 2, 3>>, <<50, 50, 1, 4>>, <<48, 47, 10, 1>>}

InitVariants ==
    /\ states = [n \in {"Test"} |-> NewState(n, 10)]
    /\ order = <<"Test">>
    /\ cls \in StateClasses
    /\ call = [op |-> "State", name |-> "Test", args |-> <<>>,
               raised |-> "none", again |-> FALSE]
    /\ snap = [n \in {"Test"} |-> NoSnap]
    /\ IdleRun

NextVariants ==
    \/ \E n \in DOMAIN states, p \in VariantPolls :
          AddPoll(n, p[1], p[2], p[3], p[4])
    \/ \E n \in DOMAIN states : CalculateWeightedSupport(n)

SpecVariants == InitVariants /\ [][NextVariants]_vars

----------------------------------------------------------------------------
(* The random module's generator, simulate_state_winners, which seeds it,  *)
(* and MonteCarloSimulationEngine.run, which draws from it as its caller   *)
(* left it. Each function is called twice on the same states.              *)

Seeds == {42, 7}

\* Trial counts of the calls.
SeededTrials == {1, 2}

\* A call that leaves the generator where the previous user left it.
KeepRng(s) == rng

\* random.seed(seed): the generator restarts the stream of that seed
SeedRng(s) == [seed |-> s, pos |-> 0]

\* The generator is a function of its seed and position: an output drawn
\* before at this position of this stream comes again, one not drawn yet is
\* unknown.
Outputs ==
    IF rng.pos < Len(tape[rng.seed])
    THEN {tape[rng.seed][rng.pos + 1]}
    ELSE ZValues

\* The generator gives z and moves on.
Advance(z) ==
    /\ rng' = [rng EXCEPT !.pos = @ + 1]
    /\ tape' = IF rng.pos < Len(tape[rng.seed]) THEN tape
               ELSE [tape EXCEPT ![rng.seed] = Append(@, z)]

\* The generator's state when the current call drew its first sample.
Entry == [rng EXCEPT !.pos = @ - Len(trace)]

\* A prediction that needs a strict majority for the Democrat.
StrictWinner(counts) ==
    IF counts.Harris > counts.Trump THEN "Democrat" ELSE "Republican"

\* 'Democrat' if counts['Harris'] >= counts['Trump'] else 'Republican'
Winner(counts) ==
    IF counts.Harris >= counts.Trump THEN "Democrat" ELSE "Republican"

SeededVotes == [Alpha |-> 269, Beta |-> 269]
SeededOrder == <<"Alpha", "Beta">>

InitSeeded ==
    /\ \E pa \in {NewState("", 0), SafeHarrisOverride(NewState("", 0))} :
       \E pb \in {NewState("", 0), SafeTrumpOverride(NewState("", 0))} :
          states = [n \in DOMAIN SeededVotes |->
                       WithProfile(n, SeededVotes[n],
                                   IF n = "Alpha" THEN pa ELSE pb)]
    /\ order = SeededOrder
    /\ cls = "election_simulation"
    /\ fn \in {"simulate_state_winners", "run"}
    /\ call = [op |-> fn, name |-> "", args |-> <<>>, raised |-> "none",
               again |-> FALSE]
    /\ snap = [n \in DOMAIN SeededVotes |-> NoSnap]
    /\ pc = IF fn = "run" THEN "seeded_run" ELSE "win_call"
    /\ simulations \in SeededTrials
    /\ poll_uncertainty = R(1)
    /\ turnout_scenario = <<>>
    /\ results = <<>>
    /\ IdleLocals
    /\ IdleLoad
    /\ seed \in IF fn = "run" THEN {0} ELSE Seeds
    /\ rng \in {[seed |-> s, pos |-> 0] : s \in Seeds}
    /\ tape = [s \in Seeds |-> <<>>]
    /\ win_counts = <<>>
    /\ predictions = <<>>
    /\ trace = <<>>
    /\ ncall = 1
    /\ previous = NoCall
    /\ IdleTally
    /\ IdleSchedule

\* random.seed(seed); win_counts = {name: {'Harris': 0, 'Trump': 0} ...}
WinnersSeed ==
    /\ pc = "win_call"
    /\ rng' = SeedRng(seed)
    /\ win_counts' = [name \in DOMAIN states |-> [Harris |-> 0, Trump |-> 0]]
    /\ pc' = "win_trials"
    /\ UNCHANGED <<tallyVars, schedVars, stateVars, simVars, loadVars, fn, seed, tape, predictions,
                   trace, ncall, previous>>

\* for _ in range(simulations): for state in states.values(): the body
WinnersState ==
    /\ pc = "win_trials"
    /\ sim < simulations
    /\ \E z \in Outputs :
          LET state == states[order[idx + 1]]
              margin == RSub(state.harris_support, state.trump_support)
              result == gauss(margin, state.std_dev, R(z))
          IN  /\ Advance(z)
              /\ outcome' = result
              /\ trace' = Append(trace, result)
              /\ win_counts' =
                    IF OutcomePositive(result)
                    THEN [win_counts EXCEPT ![state.name].Harris = @ + 1]
                    ELSE [win_counts EXCEPT ![state.name].Trump = @ + 1]
    /\ idx' = IF idx + 1 = Len(order) THEN 0 ELSE idx + 1
    /\ sim' = IF idx + 1 = Len(order) THEN sim + 1 ELSE sim
    /\ UNCHANGED <<tallyVars, schedVars, stateVars, loadVars, pc, simulations, poll_uncertainty,
                   turnout_scenario, harris_evs, trump_evs, results, ri,
                   summary, wins, fn, seed, predictions, ncall, previous>>

\* predictions[name] = winner for every name of win_counts; return
WinnersPredict ==
    /\ pc = "win_trials"
    /\ sim = simulations
    /\ predictions' = [name \in DOMAIN win_counts |-> Winner(win_counts[name])]
    /\ pc' = "win_done"
    /\ UNCHANGED <<tallyVars, schedVars, stateVars, simVars, loadVars, fn, seed, rng, tape,
                   win_counts, trace, ncall, previous>>

\* run: for _ in range(simulations): harris_evs = 0; trump_evs = 0
SeededRunTrial ==
    /\ pc = "seeded_run"
    /\ sim < simulations
    /\ harris_evs' = FreshEvs.Harris
    /\ trump_evs' = FreshEvs.Trump
    /\ idx' = 0
    /\ pc' = "seeded_trial"
    /\ UNCHANGED <<tallyVars, schedVars, stateVars, loadVars, seedVars, simulations,
                   poll_uncertainty, turnout_scenario, sim, outcome, results,
                   ri, summary, wins>>

\* run: for state in states.values(): the body, drawing from the generator
SeededRunState ==
    /\ pc = "seeded_trial"
    /\ idx < Len(order)
    /\ \E z \in Outputs :
          LET state == states[order[idx + 1]]
              margin == RSub(state.harris_support, state.trump_support)
              o == gauss(margin, state.std_dev, R(z))
          IN  /\ Advance(z)
              /\ outcome' = o
              /\ trace' = Append(trace, o)
              /\ IF OutcomePositive(o)
                 THEN /\ harris_evs' = harris_evs + state.electoral_votes
                      /\ trump_evs' = trump_evs
                 ELSE /\ trump_evs' = trump_evs + state.electoral_votes
                      /\ harris_evs' = harris_evs
    /\ idx' = idx + 1
    /\ UNCHANGED <<tallyVars, schedVars, stateVars, loadVars, pc, simulations, poll_uncertainty,
                   turnout_scenario, sim, results, ri, summary, wins, fn,
                   seed, win_counts, predictions, ncall, previous>>

\* run: results.append({"Harris": harris_evs, "Trump": trump_evs})
SeededRunAppend ==
    /\ pc = "seeded_trial"
    /\ idx = Len(order)
    /\ results' = Append(results, [Harris |-> harris_evs, Trump |-> trump_evs])
    /\ sim' = sim + 1
    /\ pc' = "seeded_run"
    /\ UNCHANGED <<tallyVars, schedVars, stateVars, loadVars, seedVars, simulations,
                   poll_uncertainty, turnout_scenario, idx, harris_evs,
                   trump_evs, outcome, ri, summary, wins>>

\* run: return results
SeededRunReturn ==
    /\ pc = "seeded_run"
    /\ sim = simulations
    /\ pc' = "win_done"
    /\ UNCHANGED <<tallyVars, schedVars, stateVars, loadVars, seedVars, simVars>>

\* The caller calls the same function once more on the same states with the
\* same trial count: simulate_state_winners with any seed; run after
\* random.seed(s), or with the generator as the first call left it.
CallAgain ==
    /\ pc = "win_done"
    /\ ncall = 1
    /\ previous' = [seed |-> seed, entry |-> Entry, trace |-> trace,
                    predictions |-> predictions, results |-> results]
    /\ ncall' = 2
    /\ IF fn = "run"
       THEN /\ pc' = "seeded_run"
            /\ seed' = seed
            /\ \/ \E s \in Seeds : rng' = SeedRng(s)
               \/ rng' = rng
       ELSE /\ pc' = "win_call"
            /\ seed' \in Seeds
            /\ rng' = rng
    /\ sim' = 0
    /\ idx' = 0
    /\ harris_evs' = 0
    /\ trump_evs' = 0
    /\ outcome' = R(0)
    /\ results' = <<>>
    /\ trace' = <<>>
    /\ win_counts' = <<>>
    /\ predictions' = <<>>
    /\ UNCHANGED <<tallyVars, schedVars, stateVars, loadVars, simulations, poll_uncertainty,
                   turnout_scenario, ri, summary, wins, fn, tape>>

NextSeeded ==
    \/ WinnersSeed
    \/ WinnersState
    \/ WinnersPredict
    \/ SeededRunTrial
    \/ SeededRunState
    \/ SeededRunAppend
    \/ SeededRunReturn
    \/ CallAgain

SpecSeeded == InitSeeded /\ [][NextSeeded]_vars

----------------------------------------------------------------------------
(* calculate_weighted_support in floating point. The sections above compute *)
(* in exact rationals; here every multiplication, addition and division is  *)
(* rounded to the nearest float (ties to even), as Python's float does, with *)
(* Precision significant bits where Python has 53.                          *)

Precision == 8

RECURSIVE Pow2(_)
Pow2(k) == IF k = 0 THEN 1 ELSE 2 * Pow2(k - 1)

\* The positive rational n/d as n'/d' * 2^e with 2^(Precision-1) <= n'/d' <
\* 2^Precision.
RECURSIVE Scaled(_, _, _)
Scaled(n, d, e) ==
    IF n >= Pow2(Precision) * d THEN Scaled(n, 2 * d, e + 1)
    ELSE IF n < Pow2(Precision - 1) * d THEN Scaled(2 * n, d, e - 1)
    ELSE [n |-> n, d |-> d, e |-> e]

\* The float nearest to the rational x >= 0, ties to the even mantissa.
Fl(x) ==
    IF x[1] = 0 THEN x
    ELSE LET s == Scaled(x[1], x[2], 0)
             m == s.n \div s.d
             r == s.n % s.d
             up == 2 * r > s.d \/ (2 * r = s.d /\ m % 2 = 1)
             mm == IF up THEN m + 1 ELSE m
         IN  IF s.e >= 0 THEN Norm(mm * Pow2(s.e), 1)
             ELSE Norm(mm, Pow2(-s.e))

\* a + b, a * b, a / b on floats
FAdd(a, b) == Fl(RAdd(a, b))
FMul(a, b) == Fl(RMul(a, b))
FDiv(a, b) == Fl(RDiv(a, b))

\* sum(poll[key] * poll['weight'] for poll in polls): sum starts from 0 and
\* adds the products from left to right
RECURSIVE float_sum(_, _, _, _)
float_sum(polls, i, key, acc) ==
    IF i > Len(polls) THEN acc
    ELSE float_sum(polls, i + 1, key,
                   FAdd(acc, FMul(polls[i][key], R(polls[i].weight))))

\* models.State.calculate_weighted_support on float-valued polls
float_calculate_weighted_support(s) ==
    LET tw == total_weight(s.polls)
    IN  IF tw = 0 THEN NeutralPrior(s)
        ELSE LET harris_total == float_sum(s.polls, 1, "harris", R(0))
                 trump_total == float_sum(s.polls, 1, "trump", R(0))
                 weighted_moe ==
                     FDiv(float_sum(s.polls, 1, "moe", R(0)), R(tw))
                 sd == FDiv(weighted_moe, Fl(Z196))
             IN  [s EXCEPT !.harris_support = FDiv(harris_total, R(tw)),
                           !.trump_support = FDiv(trump_total, R(tw)),
                           !.std_dev = IF RLt(sd, R(1)) THEN R(1) ELSE sd]

\* float(row[...]): the float nearest to the decimal n/d
ParseFloat(n, d) == Fl(Norm(n, d))

\* The first three polls of election.py's Arizona block, with weight 1.
FloatPolls ==
    {[harris |-> ParseFloat(47, 1), trump |-> ParseFloat(51, 1), weight |-> 1,
      moe |-> ParseFloat(3, 1)],
     [harris |-> ParseFloat(42, 1), trump |-> ParseFloat(50, 1), weight |-> 1,
      moe |-> ParseFloat(28, 10)],
     [harris |-> ParseFloat(42, 1), trump |-> ParseFloat(50, 1), weight |-> 1,
      moe |-> ParseFloat(44, 10)]}

\* Two State objects that receive polls in any order.
InitOrder ==
    /\ states = [n \in {"First", "Second"} |-> NewState(n, 10)]
    /\ order = <<"First", "Second">>
    /\ cls = "models"
    /\ call = [op |-> "State", name |-> "First", args |-> <<>>,
               raised |-> "none", again |-> FALSE]
    /\ snap = [n \in {"First", "Second"} |-> NoSnap]
    /\ IdleRun

\* state.add_poll(...) with a poll the State does not hold yet
OrderAddPoll(n, p) ==
    /\ pc = "idle"
    /\ \A i \in DOMAIN states[n].polls : states[n].polls[i] # p
    /\ LET r == add_poll(states[n], p.harris, p.trump, p.weight, p.moe)
       IN  /\ states' = [states EXCEPT ![n] = r.state]
           /\ call' = [op |-> "add_poll", name |-> n,
                       args |-> <<p.harris, p.trump, p.weight, p.moe>>,
                       raised |-> r.raised, again |-> FALSE]
    /\ UNCHANGED <<tallyVars, schedVars, order, cls, snap, runVars, loadVars, seedVars>>

\* state.calculate_weighted_support()
OrderCalculate(n) ==
    /\ pc = "idle"
    /\ LET s == float_calculate_weighted_support(states[n])
       IN  /\ states' = [states EXCEPT ![n] = s]
           /\ snap' = [snap EXCEPT ![n] = Snapshot(s)]
    /\ call' = [op |-> "calculate_weighted_support", name |-> n,
                args |-> <<>>, raised |-> "none", again |-> Recomputation(n)]
    /\ UNCHANGED <<tallyVars, schedVars, order, cls, runVars, loadVars, seedVars>>

NextOrder ==
    \/ \E n \in DOMAIN states, p \in FloatPolls : OrderAddPoll(n, p)
    \/ \E n \in DOMAIN states : OrderCalculate(n)

SpecOrder == InitOrder /\ [][NextOrder]_vars

----------------------------------------------------------------------------
(* The tally of simulation.py's main, which works on one array entry per   *)
(* trial, next to MonteCarloSimulationEngine.run and summarize on the same *)
(* samples.                                                                *)

\* A value stored in an np.int16 array entry: two's complement, 16 bits.
Int16(x) == ((x + 32768) % 65536) - 32768

\* The samples: at most 0, and above 0.
SampleValues == {0, 1}

\* A State whose sample is the draw itself: margin 0, deviation 1.
TallyState(name, electoral_votes) ==
    [NewState(name, electoral_votes) EXCEPT !.std_dev = R(1)]

InitTally ==
    /\ \E votes \in EngineRosters :
          states = [n \in DOMAIN votes |-> TallyState(n, votes[n])]
    /\ order = EngineOrder
    /\ cls = "simulation"
    /\ call = [op |-> "run", name |-> "", args |-> <<>>, raised |-> "none",
               again |-> FALSE]
    /\ snap = [n \in DOMAIN EngineVotes |-> NoSnap]
    /\ pc = "run"
    /\ simulations \in 1..MaxSimulations
    /\ poll_uncertainty = R(1)
    /\ turnout_scenario = <<>>
    /\ results = <<>>
    /\ IdleLocals
    /\ IdleLoad
    /\ IdleSeeded
    /\ samples \in [1..Len(EngineOrder) -> [1..simulations -> SampleValues]]
    /\ np_harris_evs = <<>>
    /\ np_trump_evs = <<>>
    /\ IdleSchedule

\* run's loop body with the sample of this state and trial as its draw
TallyRunState == RunState(samples[idx + 1][sim + 1])

\* harris_evs = np.zeros(simulations, dtype=np.int16)
VecStart ==
    /\ pc = "done"
    /\ np_harris_evs' = [t \in 1..simulations |-> 0]
    /\ idx' = 0
    /\ pc' = "vec_states"
    /\ UNCHANGED <<stateVars, loadVars, seedVars, schedVars, samples,
                   np_trump_evs, simulations, poll_uncertainty,
                   turnout_scenario, sim, harris_evs, trump_evs, outcome,
                   results, ri, summary, wins>>

\* for margin, sd, ev in zip(margins, std_devs, evs):
\*     harris_evs += (results > 0).astype(np.int16) * ev
VecState ==
    /\ pc = "vec_states"
    /\ idx < Len(order)
    /\ LET state == states[order[idx + 1]]
           ev == Int16(state.electoral_votes)
           margin == RSub(state.harris_support, state.trump_support)
           sample(t) == gauss(margin, state.std_dev, R(samples[idx + 1][t]))
       IN  np_harris_evs' =
              [t \in 1..simulations |->
                  Int16(np_harris_evs[t]
                        + Int16((IF OutcomePositive(sample(t)) THEN 1 ELSE 0)
                                * ev))]
    /\ idx' = idx + 1
    /\ UNCHANGED <<stateVars, loadVars, seedVars, schedVars, samples,
                   np_trump_evs, pc, simulations, poll_uncertainty,
                   turnout_scenario, sim, harris_evs, trump_evs, outcome,
                   results, ri, summary, wins>>

\* How many entries of the array are at least 270.
CountNonzero(array) ==
    Cardinality({t \in DOMAIN array : Reaches270(array[t])})

\* trump_evs = total_ev - harris_evs; the three counts
VecTally ==
    /\ pc = "vec_states"
    /\ idx = Len(order)
    /\ LET total_ev ==
               LET f[i \in 0..Len(order)] ==
                       IF i = 0 THEN 0
                       ELSE f[i - 1] + Int16(states[order[i]].electoral_votes)
               IN  f[Len(order)]
           trump == [t \in 1..simulations |-> total_ev - np_harris_evs[t]]
           harris_wins == CountNonzero(np_harris_evs)
           trump_wins == CountNonzero(trump)
       IN  /\ np_trump_evs' = trump
           /\ wins' = [harris_wins |-> harris_wins, trump_wins |-> trump_wins,
                       ties |-> simulations - harris_wins - trump_wins]
    /\ pc' = "vec_done"
    /\ UNCHANGED <<stateVars, loadVars, seedVars, schedVars, samples,
                   np_harris_evs, simulations, poll_uncertainty,
                   turnout_scenario, sim, idx, harris_evs, trump_evs, outcome,
                   results, ri, summary>>

NextTally ==
    \/ RunTrial
    \/ TallyRunState
    \/ RunAppend
    \/ RunReturn
    \/ SummarizeResult
    \/ SummarizeReturn
    \/ VecStart
    \/ VecState
    \/ VecTally

SpecTally == InitTally /\ [][NextTally]_vars

----------------------------------------------------------------------------
(* schedule_ingestion and ingest_once of data_ingestion.py: a cycle is     *)
(* fetch, clean, save, print, rerun; then the handler if a step raised;    *)
(* then the sleep.                                                         *)

\* The steps of ingest_once, in order.
IngestSteps == <<"fetch", "clean", "save", "print", "rerun">>

\* Where ingest_once goes when a step returns; after the last one it
\* returns, the try block ends and schedule_ingestion sleeps.
AfterStep(step) ==
    CASE step = "fetch" -> "clean"
      [] step = "clean" -> "save"
      [] step = "save" -> "print"
      [] step = "print" -> "rerun"
      [] step = "rerun" -> "sleep"

\* What the steps raise: requests and the file system raise OSError,
\* a missing column KeyError, a value that does not convert ValueError.
StepRaises(step) ==
    CASE step = "fetch" -> {"OSError", "ValueError"}
      [] step = "clean" -> {"KeyError", "ValueError"}
      [] step = "save" -> {"OSError"}
      [] step = "print" -> {"OSError"}
      [] step = "rerun" -> {"OSError", "KeyError", "ValueError"}

\* A handler that takes ValueError alone.
CaughtValueError(e) == e = "ValueError"

\* except Exception: every class the steps raise derives from Exception.
Caught(e) == e \in {"OSError", "KeyError", "ValueError"}

InitSchedule ==
    /\ states = <<>>
    /\ order = <<>>
    /\ cls = "election_simulation"
    /\ call = [op |-> "schedule_ingestion", name |-> "", args |-> <<>>,
               raised |-> "none", again |-> FALSE]
    /\ snap = <<>>
    /\ pc = "fetch"
    /\ simulations = 0
    /\ poll_uncertainty = R(1)
    /\ turnout_scenario = <<>>
    /\ results = <<>>
    /\ IdleLocals
    /\ IdleLoad
    /\ IdleSeeded
    /\ IdleTally
    /\ IdleSchedule

\* A step of ingest_once returns.
StepReturns(step) ==
    /\ pc = step
    /\ pc' = AfterStep(step)
    /\ saved' = (saved \/ step = "save")
    /\ reran' = (reran \/ step = "rerun")
    /\ UNCHANGED <<stateVars, simVars, loadVars, seedVars, tallyVars, cycle,
                   exc, failed, history>>

\* A step of ingest_once raises: ingest_once is left at once and the
\* exception reaches the try statement of schedule_ingestion.
StepRaise(step) ==
    /\ pc = step
    /\ \E e \in StepRaises(step) : exc' = e
    /\ failed' = step
    /\ reran' = (reran \/ step = "rerun")
    /\ pc' = "raised"
    /\ UNCHANGED <<stateVars, simVars, loadVars, seedVars, tallyVars, cycle,
                   saved, history>>

\* df = fetch_polling_data()
Fetch == StepReturns("fetch") \/ StepRaise("fetch")

\* df = clean_polling_data(df)
Clean == StepReturns("clean") \/ StepRaise("clean")

\* save_polling_data(df)
Save == StepReturns("save") \/ StepRaise("save")

\* print(f"Saved {len(df)} rows to {POLLING_DATA_PATH}")
PrintSaved == StepReturns("print") \/ StepRaise("print")

\* if update_simulation: run_simulation()
Rerun == StepReturns("rerun") \/ StepRaise("rerun")

\* except Exception as exc: print(...); an exception the clause does not
\* take leaves schedule_ingestion.
Except ==
    /\ pc = "raised"
    /\ pc' = IF Caught(exc) THEN "sleep" ELSE "stopped"
    /\ exc' = IF Caught(exc) THEN "none" ELSE exc
    /\ UNCHANGED <<stateVars, simVars, loadVars, seedVars, tallyVars, cycle,
                   saved, failed, reran, history>>

\* How the cycle that ends has gone.
Outcome == [failed |-> failed, saved |-> saved, reran |-> reran]

\* The outcomes of the last MaxCycles cycles.
Remember(h, o) ==
    IF Len(h) < MaxCycles THEN Append(h, o) ELSE Append(Tail(h), o)

\* time.sleep(interval_hours * 3600), then while True again
Sleep ==
    /\ pc = "sleep"
    /\ history' = Remember(history, Outcome)
    /\ cycle' = IF cycle < MaxCycles THEN cycle + 1 ELSE cycle
    /\ saved' = FALSE
    /\ failed' = "none"
    /\ reran' = FALSE
    /\ pc' = "fetch"
    /\ UNCHANGED <<stateVars, simVars, loadVars, seedVars, tallyVars, exc>>

NextSchedule ==
    \/ Fetch
    \/ Clean
    \/ Save
    \/ PrintSaved
    \/ Rerun
    \/ Except
    \/ Sleep

SpecSchedule == InitSchedule /\ [][NextSchedule]_vars

\* The interpreter goes on executing the loop: every call the cycle makes
\* returns or raises, and the sleep ends.
FairSchedule == SpecSchedule /\ WF_vars(NextSchedule)

----------------------------------------------------------------------------
(* Properties of the State class.                                          *)

\* The sums of the aggregation formula, written out over the poll list.
SigmaWeight(polls) ==
    LET f[i \in 0..Len(polls)] ==
            IF i = 0 THEN 0 ELSE f[i - 1] + polls[i].weight
    IN  f[Len(polls)]

SigmaWeighted(polls, key) ==
    LET f[i \in 0..Len(polls)] ==
            IF i = 0 THEN 0 ELSE f[i - 1] + polls[i][key] * polls[i].weight
    IN  f[Len(polls)]

\* The rational q equals num / den (den > 0).
IsQuotient(q, num, den) == q[2] > 0 /\ q[1] * den = q[2] * num

Calculated(n) == call.op = "calculate_weighted_support" /\ call.name = n

ExamplePolls == <<PollRecord(55, 45, 2, 3), PollRecord(50, 50, 1, 4)>>

\* C1: add_poll with a weight below 1 or above 10 raises ValueError and
\* leaves the poll list as it was; with a weight in 1..10 it raises nothing
\* and appends exactly one record, made of its arguments, to the end.
C1_AddPollValidatesWeight ==
    [][call'.op = "add_poll" =>
         LET n == call'.name
             a == call'.args
         IN  IF a[3] < 1 \/ a[3] > 10
             THEN /\ call'.raised = "ValueError"
                  /\ states'[n].polls = states[n].polls
             ELSE /\ call'.raised = "none"
                  /\ Len(states'[n].polls) = Len(states[n].polls) + 1
                  /\ SubSeq(states'[n].polls, 1, Len(states[n].polls))
                        = states[n].polls
                  /\ states'[n].polls[Len(states'[n].polls)]
                        = PollRecord(a[1], a[2], a[3], a[4])]_vars

\* A rejected add_poll (weight 0 or 11) on a State that already holds a poll.
C1_Witness ==
    /\ call.op = "add_poll"
    /\ call.raised = "ValueError"
    /\ call.args[3] \in {0, 11}
    /\ Len(states[call.name].polls) = 1

\* C2: after calculate_weighted_support on a non-empty poll list, supportA is
\* sum(supportA * weight) / sum(weight) and supportB likewise; the polls
\* (55,45,w2) and (50,50,w1) give 160/3 and 140/3.
C2_WeightedSupport ==
    \A n \in DOMAIN states :
        (Calculated(n) /\ states[n].polls # <<>>) =>
            LET s == states[n]
            IN  /\ call.raised = "none"
                /\ IsQuotient(s.harris_support,
                              SigmaWeighted(s.polls, "harris"),
                              SigmaWeight(s.polls))
                /\ IsQuotient(s.trump_support,
                              SigmaWeighted(s.polls, "trump"),
                              SigmaWeight(s.polls))
                /\ (s.polls = ExamplePolls =>
                        /\ s.harris_support = <<160, 3>>
                        /\ s.trump_support = <<140, 3>>)

C2_Witness ==
    /\ Calculated("Test")
    /\ states["Test"].polls = ExamplePolls
    /\ states["Test"].harris_support = <<160, 3>>

\* C3: after calculate_weighted_support on a non-empty poll list, uncertainty
\* is (sum(moe * weight) / sum(weight)) / 1.96 when that is at least 1.0 and
\* 1.0 when it is below; moe 3 weight 2 with moe 4 weight 1 gives 250/147.
C3_Uncertainty ==
    \A n \in DOMAIN states :
        (Calculated(n) /\ states[n].polls # <<>>) =>
            LET s == states[n]
                num == SigmaWeighted(s.polls, "moe") * 100
                den == SigmaWeight(s.polls) * 196
            IN  /\ (num < den => s.std_dev = <<1, 1>>)
                /\ (num >= den => IsQuotient(s.std_dev, num, den))
                /\ (s.polls = ExamplePolls => s.std_dev = <<250, 147>>)

\* The unfloored example, and under both State classes' formulas.
C3_Witness ==
    /\ Calculated("Test")
    /\ states["Test"].polls = ExamplePolls
    /\ states["Test"].std_dev = <<250, 147>>

\* C4: in every reachable state every State's std_dev is at least 1.0.
C4_UncertaintyAtLeastOne ==
    \A n \in DOMAIN states :
        states[n].std_dev[2] > 0 /\ states[n].std_dev[1] >= states[n].std_dev[2]

\* A recomputation whose weighted margin of error is below 1.96: the floor
\* is what keeps std_dev at 1.0.
C4_Witness ==
    /\ Calculated("Test")
    /\ states["Test"].polls # <<>>
    /\ SigmaWeighted(states["Test"].polls, "moe") * 100
          < SigmaWeight(states["Test"].polls) * 196
    /\ states["Test"].std_dev = <<1, 1>>

\* C5: calculate_weighted_support on an empty poll list raises nothing and
\* sets (supportA, supportB, uncertainty) to (50, 50, 2).
C5_EmptyPollsNeutralPrior ==
    \A n \in DOMAIN states :
        (Calculated(n) /\ states[n].polls = <<>>) =>
            /\ call.raised = "none"
            /\ states[n].harris_support = <<50, 1>>
            /\ states[n].trump_support = <<50, 1>>
            /\ states[n].std_dev = <<2, 1>>

\* The recomputation replaced the default 4.0 (or a safe-state override).
C5_Witness ==
    /\ Calculated("Test")
    /\ states["Test"].polls = <<>>
    /\ states["Test"].std_dev = <<2, 1>>

\* C6: a calculate_weighted_support made when the polls are those of the
\* previous calculate_weighted_support leaves supportA, supportB and
\* uncertainty at the values the previous one left.
C6_Idempotent ==
    [][\A n \in DOMAIN states :
          (call'.op = "calculate_weighted_support" /\ call'.name = n
             /\ Recomputation(n)) =>
                /\ call'.raised = "none"
                /\ states'[n].harris_support = snap[n].harris_support
                /\ states'[n].trump_support = snap[n].trump_support
                /\ states'[n].std_dev = snap[n].std_dev]_vars

\* A second calculate_weighted_support over unchanged, non-empty polls.
C6_Witness ==
    /\ Calculated("Test")
    /\ call.again
    /\ states["Test"].polls # <<>>

----------------------------------------------------------------------------
(* Properties of the engine, the analyzer and simulate_election.           *)

\* The electoral votes of all states.
TotalVotes ==
    LET f[i \in 0..Len(order)] ==
            IF i = 0 THEN 0 ELSE f[i - 1] + states[order[i]].electoral_votes
    IN  f[Len(order)]

\* C7: in every trial and for every state, the state's electoral votes go to
\* side A's total exactly when the sample is strictly greater than 0, and to
\* side B's total otherwise (so also at exactly 0); the other total stays.
C7_StrictlyPositiveSampleAwardsA ==
    [][(pc = "trial" /\ idx' = idx + 1) =>
          LET ev == states[order[idx']].electoral_votes
          IN  IF outcome'[1] > 0
              THEN harris_evs' = harris_evs + ev /\ trump_evs' = trump_evs
              ELSE harris_evs' = harris_evs /\ trump_evs' = trump_evs + ev]_vars

\* The first state of a trial drew exactly 0 and went to side B.
C7_Witness ==
    /\ pc = "trial"
    /\ idx = 1
    /\ outcome = <<0, 1>>
    /\ harris_evs = 0
    /\ trump_evs = states[order[1]].electoral_votes

\* C8: run returns exactly `simulations` results, and in each of them
\* votesA + votesB is the sum of all states' electoral votes.
C8_ResultsSumToTotal ==
    /\ Len(results) = sim
    /\ sim <= simulations
    /\ pc \in {"summarize", "done"} => Len(results) = simulations
    /\ \A i \in 1..Len(results) :
          results[i].Harris + results[i].Trump = TotalVotes

\* Two trials with different samples, both summing to the total.
C8_Witness ==
    /\ pc = "done"
    /\ simulations = 2
    /\ Len(results) = 2
    /\ results[1].Harris > 0
    /\ results[2].Harris = 0

ExampleResults == <<Result(300, 238), Result(200, 338), Result(269, 269)>>

\* C9: summarize counts a result for A when votesA >= 270, otherwise for B
\* when votesB >= 270, otherwise as a tie; the results (300,238), (200,338),
\* (269,269) give A=1, B=1, Ties=1.
C9_SummarizeClassifies ==
    pc \in {"summarize", "done"} =>
        LET seen == 1..ri
        IN  /\ summary.Harris =
                 Cardinality({i \in seen : results[i].Harris >= 270})
            /\ summary.Trump =
                 Cardinality({i \in seen : /\ results[i].Harris < 270
                                           /\ results[i].Trump >= 270})
            /\ summary.Ties =
                 Cardinality({i \in seen : /\ results[i].Harris < 270
                                           /\ results[i].Trump < 270})
            /\ pc = "done" => ri = Len(results)
            /\ (pc = "done" /\ results = ExampleResults) =>
                  summary = [Harris |-> 1, Trump |-> 1, Ties |-> 1]

C9_Witness ==
    /\ pc = "done"
    /\ results = ExampleResults
    /\ summary = [Harris |-> 1, Trump |-> 1, Ties |-> 1]

\* The mean margin of the one state of the test: whole numbers here.
TestMean ==
    states["Test"].harris_support[1] - states["Test"].trump_support[1]
      + (IF "Test" \in DOMAIN turnout_scenario
         THEN turnout_scenario["Test"][1] ELSE 0)

\* C10: with poll_uncertainty 0 every sample equals the state's mean margin,
\* so a single state with a positive mean and at least 270 electoral votes
\* wins every trial for side A: supportA=55, supportB=45, uncertainty=5 in one
\* trial gives harris_wins = 1 and trump_wins = 0.
C10_ZeroUncertaintyDeterministic ==
    poll_uncertainty = <<0, 1>> =>
        /\ (pc = "sim_trial" /\ idx = 1) => outcome = <<TestMean, 1>>
        /\ (pc = "sim_done" /\ TestMean > 0
              /\ states["Test"].electoral_votes >= 270) =>
                 /\ wins.harris_wins = simulations
                 /\ wins.trump_wins = 0
                 /\ wins.ties = 0

\* The test's run: one trial, no shift, 300 votes, 55/45 with std_dev 5.
C10_Witness ==
    /\ pc = "sim_done"
    /\ poll_uncertainty = <<0, 1>>
    /\ DOMAIN turnout_scenario = {}
    /\ simulations = 1
    /\ states["Test"].electoral_votes = 300
    /\ states["Test"].harris_support = <<55, 1>>
    /\ states["Test"].trump_support = <<45, 1>>
    /\ states["Test"].std_dev = <<5, 1>>
    /\ wins.harris_wins = 1
    /\ wins.trump_wins = 0

\* C11: the mean used for a state's sample is (supportA - supportB) plus the
\* turnout shift listed for the state's name, or plus 0 when it has none; with
\* zero deviation the 45/55 state goes to side B without a shift and to side A
\* with a shift of +15.
C11_TurnoutShiftedMean ==
    LET s == states["Test"]
        shift == IF "Test" \in DOMAIN turnout_scenario
                 THEN turnout_scenario["Test"][1] ELSE 0
        mean == s.harris_support[1] - s.trump_support[1] + shift
        sigma == s.std_dev[1] * poll_uncertainty[1]
    IN  /\ (pc = "sim_trial" /\ idx = 1) =>
              \E z \in ZValues : outcome = <<mean + z * sigma, 1>>
        /\ (/\ pc = "sim_done"
            /\ sigma = 0
            /\ s.harris_support = <<45, 1>>
            /\ s.trump_support = <<55, 1>>
            /\ s.electoral_votes >= 270) =>
               IF shift = 15
               THEN wins.harris_wins = simulations /\ wins.trump_wins = 0
               ELSE wins.trump_wins = simulations /\ wins.harris_wins = 0

\* The second test's shifted run: 45/55 with std_dev 0 and +15 for "Test".
C11_Witness ==
    /\ pc = "sim_done"
    /\ simulations = 1
    /\ "Test" \in DOMAIN turnout_scenario
    /\ turnout_scenario["Test"] = <<15, 1>>
    /\ states["Test"].harris_support = <<45, 1>>
    /\ states["Test"].std_dev = <<0, 1>>
    /\ states["Test"].electoral_votes = 300
    /\ wins.harris_wins = 1


----------------------------------------------------------------------------
\* C12: a run of the simulation, whatever its trial count, multiplier and
\* turnout shifts, leaves every state's name, electoral votes, polls, supports
\* and stored deviation as they were before the run.
C12_RunLeavesStatesUnchanged == [][states' = states]_vars

C12_Witness ==
    \/ /\ pc = "done" /\ Len(results) = 2
       /\ states["Alpha"] = WithProfile("Alpha", 269,
                                        SafeHarrisOverride(NewState("", 0)))
    \/ /\ pc = "sim_done" /\ sim = 2
       /\ poll_uncertainty = R(0)
       /\ "Test" \in DOMAIN turnout_scenario
       /\ states["Test"].std_dev = R(5)

----------------------------------------------------------------------------
(* Properties of loading.                                                  *)

\* The names a list holds.
Names(list) == {list[i] : i \in DOMAIN list}

\* How many entries of the list are the name n.
Occurrences(list, n) == Cardinality({i \in DOMAIN list : list[i] = n})

HasValues(s, harris, trump, dev) ==
    /\ s.harris_support = <<harris, 1>>
    /\ s.trump_support = <<trump, 1>>
    /\ s.std_dev = <<dev, 1>>

\* The fields are the weighted aggregate of a non-empty poll list.
HoldsAggregate(s) ==
    LET num == SigmaWeighted(s.polls, "moe") * 100
        den == SigmaWeight(s.polls) * 196
    IN  /\ IsQuotient(s.harris_support, SigmaWeighted(s.polls, "harris"),
                      SigmaWeight(s.polls))
        /\ IsQuotient(s.trump_support, SigmaWeighted(s.polls, "trump"),
                      SigmaWeight(s.polls))
        /\ IF num < den THEN s.std_dev = <<1, 1>>
           ELSE IsQuotient(s.std_dev, num, den)

\* C13 as stated: on completion every roster state in the safe-for-A list has
\* 60/35/2 and every roster state in the safe-for-B list has 35/60/2, whatever
\* its polls and whichever other lists name it.
C13_SafeValuesWhateverTheLists ==
    pc = "returned" =>
        \A n \in DOMAIN states :
            /\ n \in Names(safe_states_harris) =>
                  HasValues(states[n], 60, 35, 2)
            /\ n \in Names(safe_states_trump) =>
                  HasValues(states[n], 35, 60, 2)

\* C13: on completion a roster state that the competitive list does not name
\* has 35/60/2 when the safe-for-B list names it, and 60/35/2 when the
\* safe-for-A list names it and the safe-for-B list does not, whatever polls
\* were loaded for it.
C13_SafeValuesUnlessOverwritten ==
    pc = "returned" =>
        \A n \in DOMAIN states \ Names(competitive_states) :
            /\ n \in Names(safe_states_trump) =>
                  HasValues(states[n], 35, 60, 2)
            /\ n \in Names(safe_states_harris) \ Names(safe_states_trump) =>
                  HasValues(states[n], 60, 35, 2)

\* A safe-for-A state that received a poll keeps 60/35/2.
C13_Witness ==
    /\ pc = "returned"
    /\ "Alpha" \in Names(safe_states_harris) \ Names(safe_states_trump)
    /\ "Alpha" \notin Names(competitive_states)
    /\ states["Alpha"].polls # <<>>
    /\ HasValues(states["Alpha"], 60, 35, 2)

\* The name of the entry the running loop handles next.
EntryName ==
    IF pc = "polls" THEN polling_data[li + 1].state_name
    ELSE CurrentList[li + 1]

\* C14: an entry of the poll rows, of a safe list or of the competitive list
\* whose state name is not in the roster is passed over: no error is raised,
\* no field of any state changes and the roster keeps its names.
C14_UnknownNameSkipped ==
    [][(/\ pc \in LoadLoops
        /\ li < Len(CurrentList)
        /\ EntryName \notin DOMAIN LoadRoster) =>
            /\ states' = states
            /\ DOMAIN states' = DOMAIN LoadRoster
            /\ call'.raised = "none"
            /\ pc' = pc]_vars

\* A poll row for an unknown state with a weight add_poll would reject has
\* been passed over and the loop goes on.
C14_Witness ==
    /\ pc = "polls"
    /\ li > 0
    /\ call.op = "skip"
    /\ polling_data[li].state_name = "Narnia"
    /\ polling_data[li].weight = 11
    /\ DOMAIN states = DOMAIN LoadRoster

\* C17: when calculate_weighted_support is called for the first time, every
\* entry of both safe lists has been handled and every poll row has been
\* appended or passed over.
C17_OverridesAndPollsBeforeAggregation ==
    (\E n \in DOMAIN calcs : calcs[n] > 0) =>
        /\ progress.safe = Len(safe_states_harris) + Len(safe_states_trump)
        /\ progress.polls = Len(polling_data)

C17_Witness ==
    /\ pc = "competitive"
    /\ calcs["Alpha"] = 1
    /\ calcs["Beta"] = 0
    /\ progress.safe = 5
    /\ progress.polls = 2
    /\ Len(states["Alpha"].polls) = 2

\* C18 as stated: on completion calculate_weighted_support has been called
\* exactly once for each roster state, and every roster state that received
\* a poll holds the weighted aggregate of its polls.
C18_OncePerRosterState ==
    pc = "returned" =>
        \A n \in DOMAIN states :
            /\ calcs[n] = 1
            /\ states[n].polls # <<>> => HoldsAggregate(states[n])

\* C18: calculate_weighted_support is called once for each entry of the
\* competitive list that names a roster state, after all poll rows have been
\* handled; on completion a roster state the competitive list names holds
\* the weighted aggregate of its polls (50/50/2 without polls), and one it
\* does not name holds its default or safe values whatever polls it received.
C18_OncePerCompetitiveEntry ==
    /\ \A n \in DOMAIN calcs :
          calcs[n] > 0 => progress.polls = Len(polling_data)
    /\ pc = "returned" =>
          \A n \in DOMAIN states :
              /\ calcs[n] = Occurrences(competitive_states, n)
              /\ calcs[n] > 0 =>
                    IF states[n].polls # <<>>
                    THEN HoldsAggregate(states[n])
                    ELSE HasValues(states[n], 50, 50, 2)
              /\ calcs[n] = 0 =>
                    \/ HasValues(states[n], 50, 50, 4)
                    \/ HasValues(states[n], 60, 35, 2)
                    \/ HasValues(states[n], 35, 60, 2)

\* One state aggregated, the other left with its default values although it
\* received a poll.
C18_Witness ==
    /\ pc = "returned"
    /\ calcs["Alpha"] = 1
    /\ states["Alpha"].polls # <<>>
    /\ HoldsAggregate(states["Alpha"])
    /\ calcs["Beta"] = 0
    /\ states["Beta"].polls # <<>>
    /\ HasValues(states["Beta"], 50, 50, 4)

----------------------------------------------------------------------------
\* C19: summarize counts a trial of run as Ties only when neither side has 270
\* votes, which needs a roster of fewer than 540 votes in all; with the roster
\* of 538 votes a 269/269 trial is counted as Ties.
C19_TiesOnlyBelowTwiceThreshold ==
    pc \in {"summarize", "done"} =>
        /\ summary.Ties =
              Cardinality({i \in 1..ri : /\ results[i].Harris < 270
                                         /\ results[i].Trump < 270})
        /\ summary.Ties > 0 => TotalVotes < 2 * 270
        /\ \A i \in 1..ri :
              (results[i].Harris < 270 /\ results[i].Trump < 270) =>
                  results[i].Harris + results[i].Trump < 2 * 270

C19_Witness ==
    /\ pc = "done"
    /\ TotalVotes = 538
    /\ Len(results) = 1
    /\ results[1] = [Harris |-> 269, Trump |-> 269]
    /\ summary = [Harris |-> 0, Trump |-> 0, Ties |-> 1]

----------------------------------------------------------------------------
\* C20 as stated: the State classes of models.py, simulation.py,
\* election_simulation.py, simulation_pipeline.py and election.py compute the
\* same supports and the same deviation from the same poll list, the
\* deviation being the weighted margin of error over 1.96 (at least 1.0) and
\* never a fixed 4.0.
C20_AllClassesSameRule ==
    \A n \in DOMAIN states :
        (Calculated(n) /\ states[n].polls # <<>>) =>
            /\ HoldsAggregate(states[n])
            /\ \A c \in StateClasses :
                  CalculateOf(c, states[n]).state = states[n]

----------------------------------------------------------------------------
(* Properties of the seeded sampling functions.                            *)

\* C15: a second call of simulate_state_winners with the same seed on the
\* same states and trial count draws the same samples and returns the same
\* predictions as the first; a second call of run that starts from the same
\* generator state as the first draws the same samples and returns the same
\* results trial by trial.
C15_SameSeedSameOutcomes ==
    (pc = "win_done" /\ ncall = 2) =>
        /\ (fn = "simulate_state_winners" /\ seed = previous.seed) =>
              /\ trace = previous.trace
              /\ predictions = previous.predictions
        /\ (fn = "run" /\ Entry = previous.entry) =>
              /\ trace = previous.trace
              /\ results = previous.results

\* Two calls with seed 42 whose trials differ from one another and agree
\* between the calls.
C15_Witness ==
    /\ pc = "win_done"
    /\ ncall = 2
    /\ fn = "simulate_state_winners"
    /\ seed = 42
    /\ previous.seed = 42
    /\ Len(trace) = 4
    /\ trace[1] # trace[3]
    /\ trace = previous.trace
    /\ predictions = previous.predictions

\* The samples of the current call drawn for the state n that satisfy P.
SamplesOf(n, P(_)) ==
    {k \in 1..Len(trace) :
        order[((k - 1) % Len(order)) + 1] = n /\ P(trace[k])}

IsPositive(o) == o[1] > 0
IsNotPositive(o) == o[1] <= 0

\* C16: simulate_state_winners returns a prediction for every state it was
\* given and for no other name: Democrat when the state's samples above 0
\* outnumber its samples at or below 0, Republican when they are outnumbered,
\* and Democrat when the two counts are equal.
C16_MajorityPrediction ==
    (pc = "win_done" /\ fn = "simulate_state_winners") =>
        /\ DOMAIN predictions = DOMAIN states
        /\ \A n \in DOMAIN states :
              LET a == Cardinality(SamplesOf(n, IsPositive))
                  b == Cardinality(SamplesOf(n, IsNotPositive))
              IN  /\ a + b = simulations
                  /\ a > b => predictions[n] = "Democrat"
                  /\ a < b => predictions[n] = "Republican"
                  /\ a = b => predictions[n] = "Democrat"

\* One trial each way for Alpha, so a tie that goes to the Democrat, while
\* Beta lost both trials.
C16_Witness ==
    /\ pc = "win_done"
    /\ fn = "simulate_state_winners"
    /\ simulations = 2
    /\ Cardinality(SamplesOf("Alpha", IsPositive)) = 1
    /\ Cardinality(SamplesOf("Alpha", IsNotPositive)) = 1
    /\ predictions["Alpha"] = "Democrat"
    /\ predictions["Beta"] = "Republican"

----------------------------------------------------------------------------
\* The State's fields are the aggregate of the polls it holds now.
Aggregated(n) == snap[n].valid /\ snap[n].polls = states[n].polls

\* The polls of a State, as a set.
PollSet(n) == {states[n].polls[i] : i \in DOMAIN states[n].polls}

\* C21 as stated: two States that hold the same polls in different orders
\* have the same supportA, supportB and uncertainty after
\* calculate_weighted_support.
C21_PollOrderInsignificant ==
    (/\ Aggregated("First") /\ Aggregated("Second")
     /\ PollSet("First") = PollSet("Second")) =>
        /\ states["First"].harris_support = states["Second"].harris_support
        /\ states["First"].trump_support = states["Second"].trump_support
        /\ states["First"].std_dev = states["Second"].std_dev

----------------------------------------------------------------------------
\* C22 as stated: on the same samples the tally of simulation.py ends with
\* the same A-win, B-win and tie counts as run followed by summarize.
C22_VectorizedTallyAgrees ==
    pc = "vec_done" =>
        /\ wins.harris_wins = summary.Harris
        /\ wins.trump_wins = summary.Trump
        /\ wins.ties = summary.Ties

----------------------------------------------------------------------------
Counters == {"Harris", "Trump", "Ties"}

BothReach(result) == Reaches270(result.Harris) /\ Reaches270(result.Trump)

\* C23: summarize increments exactly one of its three counters for each
\* result, so the counters are never negative and always add up to the
\* number of results examined (all of them at the return); a result in which
\* both sides reach 270 is counted for A and for nothing else.
C23_ExactlyOneCounterPerResult ==
    /\ [](/\ DOMAIN summary = Counters
          /\ \A k \in Counters : summary[k] >= 0
          /\ summary.Harris + summary.Trump + summary.Ties = ri
          /\ pc = "done" => ri = Len(results))
    /\ [][ri' # ri =>
            /\ ri' = ri + 1
            /\ \E k \in Counters :
                  /\ summary' = [summary EXCEPT ![k] = @ + 1]
                  /\ BothReach(results[ri + 1]) => k = "Harris"]_vars

\* Three results, one of them 270 to 270, counted as one win for A, one for
\* B and one tie.
C23_Witness ==
    /\ pc = "done"
    /\ results = <<Result(270, 270), Result(200, 338), Result(269, 269)>>
    /\ summary = [Harris |-> 1, Trump |-> 1, Ties |-> 1]

----------------------------------------------------------------------------
\* Where schedule_ingestion can be while it runs.
ScheduleSteps == {"fetch", "clean", "save", "print", "rerun", "raised",
                  "sleep"}

\* The data were saved before the simulation was rerun, and no step before
\* the rerun had failed.
RerunOnlyAfterSave(o) ==
    /\ o.reran => o.saved
    /\ o.reran => o.failed \in {"none", "rerun"}
    /\ o.failed \in {"fetch", "clean", "save"} => ~o.reran /\ ~o.saved

\* C24: an exception raised by fetch, clean, save or the simulation rerun is
\* caught, so schedule_ingestion never ends: it reaches the sleep and then
\* starts the next cycle with a new fetch; and in every cycle, running or
\* past, the simulation is rerun only after the data were saved, never
\* after a failed fetch, clean or save.
C24_CycleFailureDoesNotStopScheduler ==
    /\ [](pc \in ScheduleSteps)
    /\ \A step \in {"fetch", "clean", "save", "rerun"} :
          (pc = "raised" /\ failed = step) ~> (pc = "sleep" /\ failed = step)
    /\ pc = "sleep" ~> (pc = "fetch" /\ exc = "none" /\ failed = "none")
    /\ \A c \in 0..(MaxCycles - 1) :
          (pc = "raised" /\ cycle = c) ~> (pc = "fetch" /\ cycle = c + 1)
    /\ [](pc = "rerun" => saved /\ failed = "none")
    /\ [](RerunOnlyAfterSave(Outcome))
    /\ [](\A i \in 1..Len(history) : RerunOnlyAfterSave(history[i]))
    /\ [][reran' /\ ~reran => pc = "rerun" /\ saved]_vars

\* A cycle whose fetch failed and one whose rerun failed have been followed
\* by a third, which has saved its data and is about to rerun the
\* simulation.
C24_Witness ==
    /\ pc = "rerun"
    /\ saved
    /\ Len(history) = 2
    /\ history[1] = [failed |-> "fetch", saved |-> FALSE, reran |-> FALSE]
    /\ history[2] = [failed |-> "rerun", saved |-> TRUE, reran |-> TRUE]
=============================================================================
